---- MODULE Spec2Model ----
(***************************************************************************)
(* Model of src/ECommerceSystem.ts: a catalog of stocked products, carts,  *)
(* a customer with a balance, the shipping fee, ECommerceSystem.checkout.   *)
(* Money is in whole currency units, weights are in grams, time is a       *)
(* bounded integer clock.                                                  *)
(***************************************************************************)
EXTENDS Integers, Sequences, FiniteSets, TLC

VARIABLES stock, balance, items, now, co, lastAdd, ship, ledger

vars == <<stock, balance, items, now, co, lastAdd, ship, ledger>>

(***************************************************************************)
(* Bounds of the model.                                                    *)
(***************************************************************************)
MaxQty == 2

MaxTime == 1

MaxUnits == 2

NegQty == 1

(***************************************************************************)
(* The catalog: three Product objects (identity = the id), the fields set  *)
(* by the constructors.  p1 and p3 carry the same name.                    *)
(***************************************************************************)
ProductIds == {"p1", "p2", "p3"}

Carts == {"c1", "c2"}

name == [p \in ProductIds |-> IF p = "p2" THEN "B" ELSE "A"]

price == [p \in ProductIds |-> CASE p = "p1" -> 100 [] p = "p2" -> 150 [] OTHER -> 621]

kind == [p \in ProductIds |-> IF p = "p2" THEN "Expirable" ELSE "NonExpirable"]

expiryDate == [p \in ProductIds |-> 0]

requiresShippingFlag == [p \in ProductIds |-> p # "p1"]

weight == [p \in ProductIds |-> CASE p = "p1" -> 1 [] p = "p2" -> 700 [] OTHER -> 250]

InitStock == [p \in ProductIds |-> IF p = "p3" THEN 1 ELSE 2]

InitBalance == 1000

SHIPPING_RATE_PER_KG == 30

GramsPerKg == 1000

(***************************************************************************)
(* Error values: the messages of the Error objects the code throws.        *)
(***************************************************************************)
NoName == "-"

Ok == [kind |-> "ok", name |-> NoName]

EmptyCart == [kind |-> "Cart is empty", name |-> NoName]

ProductExpired(n) == [kind |-> "is expired", name |-> n]

InsufficientStock(n) == [kind |-> "is out of stock", name |-> n]

InsufficientBalance == [kind |-> "Customer's balance is insufficient", name |-> NoName]

DebitRejected == [kind |-> "Insufficient balance", name |-> NoName]

StockRejected == [kind |-> "Not enough stock available", name |-> NoName]

RequestedExceedsStock == [kind |-> "Requested quantity exceeds available stock", name |-> NoName]

TotalExceedsStock == [kind |-> "Total quantity in cart exceeds available stock", name |-> NoName]

ExceedsStock == {RequestedExceedsStock, TotalExceedsStock}

(***************************************************************************)
(* Product                                                                 *)
(***************************************************************************)
\* isExpired with the comparison reversed: expired before the expiry date
isExpiredReversed(p, t) == IF kind[p] = "Expirable" THEN t < expiryDate[p] ELSE FALSE

isExpired(p, t) == IF kind[p] = "Expirable" THEN t > expiryDate[p] ELSE FALSE

requiresShipping(p) == requiresShippingFlag[p]

getWeight(p) == weight[p]

\* reduceQuantity without its guard
reduceQuantityUnguarded(q, amount) == [err |-> Ok, quantity |-> q - amount]

\* reduceQuantity with the operands of the subtraction exchanged
reduceQuantitySwapped(q, amount) ==
  IF amount > q THEN [err |-> StockRejected, quantity |-> q]
  ELSE [err |-> Ok, quantity |-> amount - q]

\* reduceQuantity on a product holding q: the thrown error (or Ok) and the new quantity
reduceQuantity(q, amount) ==
  IF amount > q THEN [err |-> StockRejected, quantity |-> q]
  ELSE [err |-> Ok, quantity |-> q - amount]

(***************************************************************************)
(* Customer                                                                *)
(***************************************************************************)
\* deductBalance with the operands of the subtraction exchanged
deductBalanceSwapped(b, amount) ==
  IF amount > b THEN [err |-> DebitRejected, balance |-> b]
  ELSE [err |-> Ok, balance |-> amount - b]

deductBalance(b, amount) ==
  IF amount > b THEN [err |-> DebitRejected, balance |-> b]
  ELSE [err |-> Ok, balance |-> b - amount]

(***************************************************************************)
(* CartItem and Cart                                                       *)
(***************************************************************************)
CartItem(p, q) == [product |-> p, quantity |-> q]

getTotalPrice(item) == price[item.product] * item.quantity

\* a lookup that never finds the product
findIndexNever(its, p) == -1

\* a lookup that compares the products' names instead of their identity
findIndexByName(its, p) ==
  IF \E i \in 1..Len(its) : name[its[i].product] = name[p]
  THEN CHOOSE i \in 1..Len(its) :
         /\ name[its[i].product] = name[p]
         /\ \A j \in 1..(i - 1) : name[its[j].product] # name[p]
  ELSE -1

\* Array.findIndex with the predicate item.getProduct() === product; -1 when absent
findIndex(its, p) ==
  IF \E i \in 1..Len(its) : its[i].product = p
  THEN CHOOSE i \in 1..Len(its) :
         /\ its[i].product = p
         /\ \A j \in 1..(i - 1) : its[j].product # p
  ELSE -1

\* Cart.add without the check of the merged quantity
CartAddNoMergeCheck(its, p, quantity, stk) ==
  IF quantity > stk THEN [err |-> RequestedExceedsStock, items |-> its]
  ELSE LET existingItemIndex == findIndex(its, p) IN
       IF existingItemIndex # -1
       THEN [err |-> Ok,
             items |-> [its EXCEPT ![existingItemIndex] =
                          CartItem(p, its[existingItemIndex].quantity + quantity)]]
       ELSE [err |-> Ok, items |-> Append(its, CartItem(p, quantity))]

\* Cart.add on the item array its, with the product's current stock stk
CartAdd(its, p, quantity, stk) ==
  IF quantity > stk THEN [err |-> RequestedExceedsStock, items |-> its]
  ELSE LET existingItemIndex == findIndex(its, p) IN
       IF existingItemIndex # -1
       THEN LET newQuantity == its[existingItemIndex].quantity + quantity IN
            IF newQuantity > stk THEN [err |-> TotalExceedsStock, items |-> its]
            ELSE [err |-> Ok,
                  items |-> [its EXCEPT ![existingItemIndex] = CartItem(p, newQuantity)]]
       ELSE [err |-> Ok, items |-> Append(its, CartItem(p, quantity))]

\* a subtotal that adds the unit prices, leaving the quantities out
RECURSIVE getSubtotalOfPrices(_)
getSubtotalOfPrices(its) ==
  IF its = <<>> THEN 0
  ELSE getSubtotalOfPrices(SubSeq(its, 1, Len(its) - 1)) + price[its[Len(its)].product]

RECURSIVE getSubtotal(_)
getSubtotal(its) ==
  IF its = <<>> THEN 0
  ELSE getSubtotal(SubSeq(its, 1, Len(its) - 1)) + getTotalPrice(its[Len(its)])

(***************************************************************************)
(* Shipping                                                                *)
(***************************************************************************)
ShippableItem(n, w) == [name |-> n, weight |-> w]

RECURSIVE TotalWeight(_)
TotalWeight(units) ==
  IF units = <<>> THEN 0
  ELSE TotalWeight(SubSeq(units, 1, Len(units) - 1)) + units[Len(units)].weight

\* Math.ceil(a / b) for b > 0
Ceil(a, b) == IF a % b = 0 THEN a \div b ELSE (a \div b) + 1

\* the fee rounded to the nearest unit (Math.round) instead of up
calculateShippingFeeRounded(units) ==
  IF Len(units) = 0 THEN 0
  ELSE (2 * TotalWeight(units) * SHIPPING_RATE_PER_KG + GramsPerKg) \div (2 * GramsPerKg)

calculateShippingFee(units) ==
  IF Len(units) = 0 THEN 0
  ELSE Ceil(TotalWeight(units) * SHIPPING_RATE_PER_KG, GramsPerKg)

\* the inner loop of checkout: quantity units of one product
RECURSIVE Repeat(_, _)
Repeat(u, n) == IF n <= 0 THEN <<>> ELSE Append(Repeat(u, n - 1), u)

\* a collection that emits one unit per shipped line, whatever its quantity
RECURSIVE CollectShippablePerLine(_)
CollectShippablePerLine(its) ==
  IF its = <<>> THEN <<>>
  ELSE LET item == its[Len(its)]
           rest == CollectShippablePerLine(SubSeq(its, 1, Len(its) - 1))
       IN IF requiresShipping(item.product)
          THEN Append(rest, ShippableItem(name[item.product], getWeight(item.product)))
          ELSE rest

\* the "Collect shippable items" loop of checkout
RECURSIVE CollectShippable(_)
CollectShippable(its) ==
  IF its = <<>> THEN <<>>
  ELSE LET item == its[Len(its)]
           rest == CollectShippable(SubSeq(its, 1, Len(its) - 1))
       IN IF requiresShipping(item.product)
          THEN rest \o Repeat(ShippableItem(name[item.product], getWeight(item.product)),
                              item.quantity)
          ELSE rest

(***************************************************************************)
(* State                                                                   *)
(***************************************************************************)
IdleCo == [pc |-> "idle", idx |-> 0, subtotal |-> 0, shippingFees |-> 0,
           totalAmount |-> 0, debited |-> 0, err |-> Ok, preBalance |-> 0,
           preStock |-> [p \in ProductIds |-> 0]]

NoAdd == [cart |-> "-", product |-> "-", quantity |-> 0, err |-> Ok, pre |-> <<>>]

NoShip == [pc |-> "none", a |-> <<>>, b |-> <<>>, feeA |-> 0, feeB |-> 0]

\* what the successful checkouts have charged and sold so far
NoLedger == [paid |-> 0, sold |-> [p \in ProductIds |-> 0]]

\* no call is in progress
AllIdle == lastAdd = NoAdd /\ \A c \in Carts : co[c].pc = "idle"

Init ==
  /\ stock = InitStock
  /\ balance = InitBalance
  /\ items = [c \in Carts |-> <<>>]
  /\ now = 0
  /\ co = [c \in Carts |-> IdleCo]
  /\ lastAdd = NoAdd
  /\ ship = NoShip
  /\ ledger = NoLedger

(***************************************************************************)
(* Operations                                                              *)
(***************************************************************************)
\* the clock new Date() reads
Tick ==
  /\ now < MaxTime
  /\ now' = now + 1
  /\ UNCHANGED <<stock, balance, items, co, lastAdd, ship, ledger>>

\* an add that takes the units out of stock when it puts them in the cart
AddReserving(c, p, quantity) ==
  /\ co[c].pc = "idle"
  /\ LET r == CartAdd(items[c], p, quantity, stock[p]) IN
     /\ items' = [items EXCEPT ![c] = r.items]
     /\ stock' = [stock EXCEPT ![p] = IF r.err = Ok THEN @ - quantity ELSE @]
     /\ lastAdd' = [cart |-> c, product |-> p, quantity |-> quantity,
                    err |-> r.err, pre |-> items[c]]
  /\ UNCHANGED <<balance, now, co, ship, ledger>>

\* cart.add(product, quantity)
Add(c, p, quantity) ==
  /\ co[c].pc = "idle"
  /\ LET r == CartAdd(items[c], p, quantity, stock[p]) IN
     /\ items' = [items EXCEPT ![c] = r.items]
     /\ lastAdd' = [cart |-> c, product |-> p, quantity |-> quantity,
                    err |-> r.err, pre |-> items[c]]
  /\ UNCHANGED <<stock, balance, now, co, ship, ledger>>

\* cart.add has returned, or its error has reached the caller
AddReturn ==
  /\ lastAdd # NoAdd
  /\ lastAdd' = NoAdd
  /\ UNCHANGED <<stock, balance, items, now, co, ship, ledger>>

Fail(c, e) == co' = [co EXCEPT ![c].pc = "done", ![c].err = e]

\* checkout, lines 231-233: the call starts, the cart is tested for emptiness
CheckoutEmptyCheck(c) ==
  /\ co[c].pc = "idle"
  /\ LET start == [IdleCo EXCEPT !.preBalance = balance, !.preStock = stock] IN
     IF Len(items[c]) = 0
     THEN co' = [co EXCEPT ![c] = [start EXCEPT !.pc = "done", !.err = EmptyCart]]
     ELSE co' = [co EXCEPT ![c] = [start EXCEPT !.pc = "validate", !.idx = 1]]
  /\ UNCHANGED <<stock, balance, items, now, lastAdd, ship, ledger>>

\* the two tests of the validation loop body in the other order
ValidateItemStockFirst(item, stk, t) ==
  IF stk < item.quantity THEN InsufficientStock(name[item.product])
  ELSE IF isExpired(item.product, t) THEN ProductExpired(name[item.product])
  ELSE Ok

\* the error, if any, the validation loop body throws for one line
ValidateItem(item, stk, t) ==
  IF isExpired(item.product, t) THEN ProductExpired(name[item.product])
  ELSE IF stk < item.quantity THEN InsufficientStock(name[item.product])
  ELSE Ok

\* a validation loop that takes each line's units out of stock as it accepts the line
CheckoutValidateReserving(c) ==
  /\ co[c].pc = "validate"
  /\ LET item == items[c][co[c].idx]
         e == ValidateItem(item, stock[item.product], now)
     IN IF e # Ok THEN Fail(c, e) /\ UNCHANGED stock
        ELSE /\ stock' = [stock EXCEPT ![item.product] = @ - item.quantity]
             /\ IF co[c].idx = Len(items[c])
                THEN co' = [co EXCEPT ![c].pc = "price"]
                ELSE co' = [co EXCEPT ![c].idx = @ + 1]
  /\ UNCHANGED <<balance, items, now, lastAdd, ship, ledger>>

\* checkout, lines 236-244: one iteration of the validation loop
CheckoutValidate(c) ==
  /\ co[c].pc = "validate"
  /\ LET item == items[c][co[c].idx]
         e == ValidateItem(item, stock[item.product], now)
     IN IF e # Ok THEN Fail(c, e)
        ELSE IF co[c].idx = Len(items[c])
        THEN co' = [co EXCEPT ![c].pc = "price"]
        ELSE co' = [co EXCEPT ![c].idx = @ + 1]
  /\ UNCHANGED <<stock, balance, items, now, lastAdd, ship, ledger>>

\* checkout, lines 246-268: subtotal, shippable items, shipping fee, total
CheckoutPrice(c) ==
  /\ co[c].pc = "price"
  /\ LET subtotal == getSubtotal(items[c])
         shippingFees == calculateShippingFee(CollectShippable(items[c]))
     IN co' = [co EXCEPT ![c].pc = "afford",
                         ![c].subtotal = subtotal,
                         ![c].shippingFees = shippingFees,
                         ![c].totalAmount = subtotal + shippingFees]
  /\ UNCHANGED <<stock, balance, items, now, lastAdd, ship, ledger>>

\* checkout, lines 270-272
CheckoutAfford(c) ==
  /\ co[c].pc = "afford"
  /\ IF balance < co[c].totalAmount
     THEN Fail(c, InsufficientBalance)
     ELSE co' = [co EXCEPT ![c].pc = "debit"]
  /\ UNCHANGED <<stock, balance, items, now, lastAdd, ship, ledger>>

\* a payment step that debits the subtotal, leaving the shipping fee out
CheckoutDebitSubtotal(c) ==
  /\ co[c].pc = "debit"
  /\ LET r == deductBalance(balance, co[c].subtotal) IN
     /\ balance' = r.balance
     /\ IF r.err # Ok THEN Fail(c, r.err)
        ELSE co' = [co EXCEPT ![c].pc = "reduce", ![c].idx = 1,
                              ![c].debited = co[c].subtotal]
  /\ UNCHANGED <<stock, items, now, lastAdd, ship, ledger>>

\* checkout, line 275
CheckoutDebit(c) ==
  /\ co[c].pc = "debit"
  /\ LET r == deductBalance(balance, co[c].totalAmount) IN
     /\ balance' = r.balance
     /\ IF r.err # Ok THEN Fail(c, r.err)
        ELSE co' = [co EXCEPT ![c].pc = "reduce", ![c].idx = 1,
                              ![c].debited = co[c].totalAmount]
  /\ UNCHANGED <<stock, items, now, lastAdd, ship, ledger>>

\* the units of product p on the lines its
RECURSIVE UnitsOf(_, _)
UnitsOf(its, p) ==
  IF its = <<>> THEN 0
  ELSE UnitsOf(SubSeq(its, 1, Len(its) - 1), p)
         + (IF its[Len(its)].product = p THEN its[Len(its)].quantity ELSE 0)

\* the ledger after the checkout of the lines its, charged total, has succeeded
Record(its, total) ==
  [paid |-> ledger.paid + total,
   sold |-> [p \in ProductIds |-> ledger.sold[p] + UnitsOf(its, p)]]

\* an inventory loop that walks the lines from the last to the first
CheckoutReduceReverse(c) ==
  /\ co[c].pc = "reduce"
  /\ LET item == items[c][Len(items[c]) - co[c].idx + 1]
         r == reduceQuantity(stock[item.product], item.quantity)
     IN /\ stock' = [stock EXCEPT ![item.product] = r.quantity]
        /\ IF r.err # Ok THEN Fail(c, r.err) /\ UNCHANGED ledger
           ELSE IF co[c].idx = Len(items[c])
           THEN /\ co' = [co EXCEPT ![c].pc = "done", ![c].err = Ok]
                /\ ledger' = Record(items[c], co[c].totalAmount)
           ELSE co' = [co EXCEPT ![c].idx = @ + 1] /\ UNCHANGED ledger
  /\ UNCHANGED <<balance, items, now, lastAdd, ship>>

\* an inventory loop that gives the debit back when a reduction is rejected
CheckoutReduceRefunding(c) ==
  /\ co[c].pc = "reduce"
  /\ LET item == items[c][co[c].idx]
         r == reduceQuantity(stock[item.product], item.quantity)
     IN /\ stock' = [stock EXCEPT ![item.product] = r.quantity]
        /\ IF r.err # Ok
           THEN Fail(c, r.err) /\ balance' = balance + co[c].debited /\ UNCHANGED ledger
           ELSE /\ UNCHANGED balance
                /\ IF co[c].idx = Len(items[c])
                   THEN /\ co' = [co EXCEPT ![c].pc = "done", ![c].err = Ok]
                        /\ ledger' = Record(items[c], co[c].totalAmount)
                   ELSE co' = [co EXCEPT ![c].idx = @ + 1] /\ UNCHANGED ledger
  /\ UNCHANGED <<items, now, lastAdd, ship>>

\* checkout, lines 277-279: one iteration of the inventory loop
CheckoutReduce(c) ==
  /\ co[c].pc = "reduce"
  /\ LET item == items[c][co[c].idx]
         r == reduceQuantity(stock[item.product], item.quantity)
     IN /\ stock' = [stock EXCEPT ![item.product] = r.quantity]
        /\ IF r.err # Ok THEN Fail(c, r.err) /\ UNCHANGED ledger
           ELSE IF co[c].idx = Len(items[c])
           THEN /\ co' = [co EXCEPT ![c].pc = "done", ![c].err = Ok]
                /\ ledger' = Record(items[c], co[c].totalAmount)
           ELSE co' = [co EXCEPT ![c].idx = @ + 1] /\ UNCHANGED ledger
  /\ UNCHANGED <<balance, items, now, lastAdd, ship>>

\* a return that empties the cart after a successful checkout
CheckoutReturnClearing(c) ==
  /\ co[c].pc = "done"
  /\ co' = [co EXCEPT ![c] = IdleCo]
  /\ items' = [items EXCEPT ![c] = IF co[c].err = Ok THEN <<>> ELSE @]
  /\ UNCHANGED <<stock, balance, now, lastAdd, ship, ledger>>

\* checkout returns (after the receipt) or its error reaches the caller
CheckoutReturn(c) ==
  /\ co[c].pc = "done"
  /\ co' = [co EXCEPT ![c] = IdleCo]
  /\ UNCHANGED <<stock, balance, items, now, lastAdd, ship, ledger>>

(***************************************************************************)
(* Calls run one after another: a call starts only when no checkout is in  *)
(* progress, and the clock does not advance within a call.                 *)
(***************************************************************************)
Next ==
  \/ AllIdle /\ Tick
  \/ \E c \in Carts, p \in ProductIds, q \in 1..MaxQty : AllIdle /\ Add(c, p, q)
  \/ AddReturn
  \/ \E c \in Carts : AllIdle /\ CheckoutEmptyCheck(c)
  \/ \E c \in Carts : CheckoutValidate(c)
  \/ \E c \in Carts : CheckoutPrice(c)
  \/ \E c \in Carts : CheckoutAfford(c)
  \/ \E c \in Carts : CheckoutDebit(c)
  \/ \E c \in Carts : CheckoutReduce(c)
  \/ \E c \in Carts : CheckoutReturn(c)

Spec == Init /\ [][Next]_vars


(***************************************************************************)
(* The same calls on a catalog with more units of p1 and fewer of p2.      *)
(***************************************************************************)
LargerStock == [p \in ProductIds |-> IF p = "p1" THEN 3 ELSE 1]

InitLargerStock ==
  /\ stock = LargerStock
  /\ balance = InitBalance
  /\ items = [c \in Carts |-> <<>>]
  /\ now = 0
  /\ co = [c \in Carts |-> IdleCo]
  /\ lastAdd = NoAdd
  /\ ship = NoShip
  /\ ledger = NoLedger

SpecLargerStock == InitLargerStock /\ [][Next]_vars

(***************************************************************************)
(* Cart.add called with any integer quantity, zero and negative included.  *)
(* A negative line makes checkout raise stock and balance without limit,   *)
(* so one cart is used, its lines are kept >= -NegQty, and a checkout      *)
(* starts only while no earlier checkout has changed stock or balance.     *)
(***************************************************************************)
WithinBounds == balance = InitBalance /\ stock = InitStock

NextAnyQty ==
  \/ AllIdle /\ Tick
  \/ \E p \in ProductIds, q \in (-NegQty)..MaxQty :
       /\ AllIdle
       /\ UnitsOf(items["c1"], p) + q >= -NegQty
       /\ Add("c1", p, q)
  \/ AddReturn
  \/ AllIdle /\ WithinBounds /\ CheckoutEmptyCheck("c1")
  \/ CheckoutValidate("c1")
  \/ CheckoutPrice("c1")
  \/ CheckoutAfford("c1")
  \/ CheckoutDebit("c1")
  \/ CheckoutReduce("c1")
  \/ CheckoutReturn("c1")

SpecAnyQty == Init /\ [][NextAnyQty]_vars

(***************************************************************************)
(* Checkouts of different carts interleaved step by step, with no critical *)
(* section: a checkout may start while another is in progress.             *)
(***************************************************************************)
NextConc ==
  \/ \E c \in Carts, p \in ProductIds, q \in 1..MaxQty : AllIdle /\ Add(c, p, q)
  \/ AddReturn
  \/ \E c \in Carts : lastAdd = NoAdd /\ CheckoutEmptyCheck(c)
  \/ \E c \in Carts : CheckoutValidate(c)
  \/ \E c \in Carts : CheckoutPrice(c)
  \/ \E c \in Carts : CheckoutAfford(c)
  \/ \E c \in Carts : CheckoutDebit(c)
  \/ \E c \in Carts : CheckoutReduce(c)
  \/ \E c \in Carts : CheckoutReturn(c)

SpecConc == Init /\ [][NextConc]_vars

(***************************************************************************)
(* calculateShippingFee on its own: two bounded unit lists a and b are     *)
(* drawn at the start and the fee of each is computed.                     *)
(***************************************************************************)
FeeWeights == {0, 1, 33, 34, 700}

UnitSeqs ==
  UNION {[1..n -> {ShippableItem("A", w) : w \in FeeWeights}] : n \in 0..MaxUnits}

InitFee ==
  /\ stock = InitStock
  /\ balance = InitBalance
  /\ items = [c \in Carts |-> <<>>]
  /\ now = 0
  /\ co = [c \in Carts |-> IdleCo]
  /\ lastAdd = NoAdd
  /\ ledger = NoLedger
  /\ \E a \in UnitSeqs, b \in UnitSeqs :
       ship = [pc |-> "in", a |-> a, b |-> b, feeA |-> 0, feeB |-> 0]

FeeCall ==
  /\ ship.pc = "in"
  /\ ship' = [ship EXCEPT !.pc = "out",
                          !.feeA = calculateShippingFee(ship.a),
                          !.feeB = calculateShippingFee(ship.b)]
  /\ UNCHANGED <<stock, balance, items, now, co, lastAdd, ledger>>

NextFee == FeeCall

SpecFee == InitFee /\ [][NextFee]_vars

(***************************************************************************)
(* Definitions used to state the properties: sums written over the set of  *)
(* products, independently of the loops of the code.                       *)
(***************************************************************************)
RECURSIVE SumOver(_, _)
SumOver(S, f) ==
  IF S = {} THEN 0
  ELSE LET x == CHOOSE y \in S : TRUE IN f[x] + SumOver(S \ {x}, f)

\* the quantity of product p held by the lines of its
QuantityOf(its, p) ==
  SumOver({i \in 1..Len(its) : its[i].product = p}, [i \in 1..Len(its) |-> its[i].quantity])

ExpectedSubtotal(its) ==
  SumOver(ProductIds, [p \in ProductIds |-> price[p] * QuantityOf(its, p)])

\* shipped weight in grams: every unit of every line whose product is shipped
ShippedWeight(its) ==
  SumOver({p \in ProductIds : requiresShippingFlag[p]},
          [p \in ProductIds |-> weight[p] * QuantityOf(its, p)])

HasShippedLine(its) ==
  \E i \in 1..Len(its) : requiresShippingFlag[its[i].product] /\ its[i].quantity > 0

\* the least integer f with f >= grams * rate / 1000
IsCeilingFee(f, grams) ==
  /\ f * GramsPerKg >= grams * SHIPPING_RATE_PER_KG
  /\ (f - 1) * GramsPerKg < grams * SHIPPING_RATE_PER_KG

Done(c) == co[c].pc = "done"

PreCommitErrors ==
  {EmptyCart, InsufficientBalance}
    \cup {ProductExpired(name[p]) : p \in ProductIds}
    \cup {InsufficientStock(name[p]) : p \in ProductIds}

(***************************************************************************)
(* Properties                                                              *)
(***************************************************************************)

\* C1: a checkout that fails with EmptyCart, ProductExpired, InsufficientStock
\* or InsufficientBalance leaves the balance and the stock of every product
\* as they were when the call started.
C1_FailedCheckoutChangesNothing ==
  \A c \in Carts :
    Done(c) /\ co[c].err \in PreCommitErrors
      => balance = co[c].preBalance /\ stock = co[c].preStock

\* a checkout of a non-empty cart has failed for lack of balance
C1_Witness ==
  \E c \in Carts : Done(c) /\ co[c].err = InsufficientBalance /\ Len(items[c]) > 0

\* C2: with calls run one after another and add quantities > 0, the stock
\* of every product stays >= 0.
C2_StockNeverNegative == \A p \in ProductIds : stock[p] >= 0

\* a successful checkout has sold the last units of a product
C2_Witness ==
  \E c \in Carts, p \in ProductIds :
    Done(c) /\ co[c].err = Ok /\ co[c].preStock[p] > 0 /\ stock[p] = 0

\* C3: with calls run one after another and add quantities > 0, the
\* customer's balance stays >= 0.
C3_BalanceNeverNegative == balance >= 0

\* a successful checkout has debited the customer
C3_Witness ==
  \E c \in Carts : Done(c) /\ co[c].err = Ok /\ balance < co[c].preBalance

\* C4: a successful checkout lowers the balance by exactly
\* totalAmount = subtotal + shippingFee and the stock of each product by
\* exactly the quantity of its line; A x2 (100) and B x1 (150, 700 g,
\* shipped) with balance 1000 leave balance 629.
C4_SuccessfulCheckoutEffect ==
  \A c \in Carts :
    Done(c) /\ co[c].err = Ok
      => /\ co[c].subtotal = ExpectedSubtotal(items[c])
         /\ IF HasShippedLine(items[c])
            THEN IsCeilingFee(co[c].shippingFees, ShippedWeight(items[c]))
            ELSE co[c].shippingFees = 0
         /\ co[c].totalAmount = co[c].subtotal + co[c].shippingFees
         /\ balance = co[c].preBalance - co[c].totalAmount
         /\ \A p \in ProductIds : stock[p] = co[c].preStock[p] - QuantityOf(items[c], p)
         /\ (items[c] = <<CartItem("p1", 2), CartItem("p2", 1)>> /\ co[c].preBalance = 1000
               => balance = 629)

\* the checkout of A x2, B x1 with balance 1000 has succeeded
C4_Witness ==
  \E c \in Carts :
    /\ Done(c) /\ co[c].err = Ok
    /\ items[c] = <<CartItem("p1", 2), CartItem("p2", 1)>>
    /\ co[c].preBalance = 1000 /\ balance = 629
    /\ stock["p1"] = co[c].preStock["p1"] - 2
    /\ stock["p2"] = co[c].preStock["p2"] - 1

\* C5: Cart.add(product, q) fails with ExceedsStock whenever q exceeds the
\* product's stock, or the product has a line and line quantity + q exceeds
\* the stock; the cart is then exactly as before the call.
C5_AddExceedingStockFails ==
  lastAdd # NoAdd =>
    LET p == lastAdd.product
        q == lastAdd.quantity
        pre == lastAdd.pre
    IN (\/ q > stock[p]
        \/ \E i \in 1..Len(pre) : pre[i].product = p /\ pre[i].quantity + q > stock[p])
         => lastAdd.err \in ExceedsStock /\ items[lastAdd.cart] = pre

\* an add within the stock was refused because the merged quantity exceeds it
C5_Witness ==
  /\ lastAdd # NoAdd
  /\ lastAdd.err = TotalExceedsStock
  /\ lastAdd.quantity <= stock[lastAdd.product]
  /\ items[lastAdd.cart] = lastAdd.pre


\* expiry as the catalog states it: an expirable product is expired once the
\* clock is past its expiry date
PastExpiry(p, t) == kind[p] = "Expirable" /\ t > expiryDate[p]

LineFails(its, i, stk, t) ==
  PastExpiry(its[i].product, t) \/ stk[its[i].product] < its[i].quantity

ExpectedFee(its) ==
  IF HasShippedLine(its)
  THEN (ShippedWeight(its) * SHIPPING_RATE_PER_KG + GramsPerKg - 1) \div GramsPerKg
  ELSE 0

\* the outcome the ordered checks decide for a cart, given stock, balance and time
ExpectedOutcome(its, stk, bal, t) ==
  IF Len(its) = 0 THEN EmptyCart
  ELSE IF \E i \in 1..Len(its) : LineFails(its, i, stk, t)
  THEN LET i == CHOOSE k \in 1..Len(its) :
                  /\ LineFails(its, k, stk, t)
                  /\ \A j \in 1..(k - 1) : ~LineFails(its, j, stk, t)
       IN IF PastExpiry(its[i].product, t)
          THEN ProductExpired(name[its[i].product])
          ELSE InsufficientStock(name[its[i].product])
  ELSE IF bal < ExpectedSubtotal(its) + ExpectedFee(its) THEN InsufficientBalance
  ELSE Ok

SomeLineExpired(c) == \E i \in 1..Len(items[c]) : PastExpiry(items[c][i].product, now)

Unchanged(c) == balance = co[c].preBalance /\ stock = co[c].preStock

\* C6 as stated: the checkout of a cart holding an expired product fails
\* with ProductExpired, whichever line it is and whatever the state of the
\* other lines, and changes no stock and no balance.
C6_AsStated ==
  \A c \in Carts :
    Done(c) /\ SomeLineExpired(c)
      => (\E p \in ProductIds : co[c].err = ProductExpired(name[p])) /\ Unchanged(c)

\* C6 (amended): the checkout of a cart holding an expired product fails and
\* changes no stock and no balance; the error is ProductExpired for the
\* first expired line, unless an earlier line has stock < quantity, and then
\* it is InsufficientStock for the first such line.
C6_ExpiredLineFailsCheckout ==
  \A c \in Carts :
    Done(c) /\ SomeLineExpired(c)
      => LET its == items[c]
             k == CHOOSE i \in 1..Len(its) :
                    /\ PastExpiry(its[i].product, now)
                    /\ \A j \in 1..(i - 1) : ~PastExpiry(its[j].product, now)
             short == {j \in 1..(k - 1) : co[c].preStock[its[j].product] < its[j].quantity}
         IN /\ Unchanged(c)
            /\ IF short = {}
               THEN co[c].err = ProductExpired(name[its[k].product])
               ELSE \E j \in short :
                      /\ \A i \in short : j <= i
                      /\ co[c].err = InsufficientStock(name[its[j].product])

\* a checkout has failed with ProductExpired for a product on the second line
C6_Witness ==
  \E c \in Carts :
    /\ Done(c) /\ Len(items[c]) >= 2
    /\ ~PastExpiry(items[c][1].product, now)
    /\ PastExpiry(items[c][2].product, now)
    /\ co[c].err = ProductExpired(name[items[c][2].product])
    /\ Unchanged(c)

\* C7: the outcome is decided by the checks in order: EmptyCart iff no
\* lines; else the error of the first line that is expired or short of
\* stock, ProductExpired first on the same line; else InsufficientBalance
\* iff balance < totalAmount; else success, and balance = totalAmount
\* succeeds and leaves 0.
C7_OutcomeFollowsCheckOrder ==
  \A c \in Carts :
    Done(c) =>
      /\ co[c].err = ExpectedOutcome(items[c], co[c].preStock, co[c].preBalance, now)
      /\ (co[c].err = Ok
            /\ co[c].preBalance = ExpectedSubtotal(items[c]) + ExpectedFee(items[c])
            => balance = 0)

\* a checkout whose total equals the balance has succeeded and left 0
C7_Witness ==
  \E c \in Carts :
    /\ Done(c) /\ co[c].err = Ok
    /\ co[c].preBalance = co[c].totalAmount
    /\ balance = 0

\* a line both expired and short of stock was rejected as expired
C7_WitnessPrecedence ==
  \E c \in Carts :
    /\ Done(c) /\ Len(items[c]) >= 1
    /\ PastExpiry(items[c][1].product, now)
    /\ co[c].preStock[items[c][1].product] < items[c][1].quantity
    /\ co[c].err = ProductExpired(name[items[c][1].product])

\* C8: a cart holds at most one line per product identity; a product whose
\* name equals that of a product already in the cart, but which is another
\* object, gets a line of its own.
C8_OneLinePerProduct ==
  /\ \A c \in Carts : \A i, j \in 1..Len(items[c]) :
       i # j => items[c][i].product # items[c][j].product
  /\ (lastAdd # NoAdd /\ lastAdd.err = Ok
        /\ \A i \in 1..Len(lastAdd.pre) : lastAdd.pre[i].product # lastAdd.product)
       => items[lastAdd.cart] = Append(lastAdd.pre, CartItem(lastAdd.product, lastAdd.quantity))

\* a product was added to a cart holding another product of the same name
C8_Witness ==
  /\ lastAdd # NoAdd /\ lastAdd.err = Ok
  /\ \E i \in 1..Len(lastAdd.pre) :
       /\ name[lastAdd.pre[i].product] = name[lastAdd.product]
       /\ lastAdd.pre[i].product # lastAdd.product
  /\ Len(items[lastAdd.cart]) = Len(lastAdd.pre) + 1

\* C9: adding a product that has a line, with merged quantity within the
\* stock, leaves one line of quantity q1 + q2 at the place of the original
\* line; getSubtotal is the sum of unitPrice * quantity over the lines (0
\* for an empty cart).
C9_MergeAndSubtotal ==
  /\ lastAdd # NoAdd =>
       \A i \in 1..Len(lastAdd.pre) :
         (/\ lastAdd.pre[i].product = lastAdd.product
          /\ lastAdd.pre[i].quantity + lastAdd.quantity <= stock[lastAdd.product])
           => /\ lastAdd.err = Ok
              /\ items[lastAdd.cart] =
                   [lastAdd.pre EXCEPT ![i] =
                      CartItem(lastAdd.product, lastAdd.pre[i].quantity + lastAdd.quantity)]
              /\ QuantityOf(items[lastAdd.cart], lastAdd.product)
                   = lastAdd.pre[i].quantity + lastAdd.quantity
  /\ \A c \in Carts :
       /\ getSubtotal(items[c]) = ExpectedSubtotal(items[c])
       /\ (items[c] = <<>> => getSubtotal(items[c]) = 0)
       /\ (co[c].pc \in {"afford", "debit", "reduce"} => co[c].subtotal = ExpectedSubtotal(items[c]))

\* a second add was merged into a line that is not the last line of the cart
C9_Witness ==
  /\ lastAdd # NoAdd /\ lastAdd.err = Ok
  /\ \E i \in 1..(Len(lastAdd.pre) - 1) :
       /\ lastAdd.pre[i].product = lastAdd.product
       /\ items[lastAdd.cart][i].quantity = lastAdd.pre[i].quantity + lastAdd.quantity
       /\ getSubtotal(items[lastAdd.cart])
            = getSubtotal(lastAdd.pre) + price[lastAdd.product] * lastAdd.quantity

\* the weight of a unit list, summed over its positions
WeightOf(units) == SumOver(1..Len(units), [i \in 1..Len(units) |-> units[i].weight])

\* C10: calculateShippingFee is 0 for an empty list; otherwise it is the
\* ceiling of totalWeight * 30 per kg: an integer >= the exact fee and
\* < exact fee + 1; and it is non-decreasing in the total weight.
C10_FeeIsCeilingAndMonotone ==
  ship.pc = "out" =>
    /\ (ship.a = <<>> => ship.feeA = 0)
    /\ (ship.a # <<>> => ship.feeA \in Int /\ IsCeilingFee(ship.feeA, WeightOf(ship.a)))
    /\ (WeightOf(ship.a) <= WeightOf(ship.b) => ship.feeA <= ship.feeB)

\* two lists of different weight, with a fractional exact fee, got the same fee
C10_Witness ==
  /\ ship.pc = "out"
  /\ ship.a # <<>>
  /\ (WeightOf(ship.a) * SHIPPING_RATE_PER_KG) % GramsPerKg # 0
  /\ WeightOf(ship.a) < WeightOf(ship.b)
  /\ ship.feeA = ship.feeB
  /\ ship.feeA > 0

\* the checkout of cart c has computed its prices
Priced(c) ==
  \/ co[c].pc \in {"afford", "debit", "reduce"}
  \/ Done(c) /\ co[c].err \in {Ok, InsufficientBalance, DebitRejected, StockRejected}

\* C11: the shipping fee of a checkout is the fee of the total weight of the
\* shipped lines only: quantity N of a shipped product counts N times its
\* weight, a product that is not shipped counts nothing whatever its weight,
\* and with no shipped line the fee is 0 and totalAmount = subtotal.
C11_FeeFromShippedLinesOnly ==
  \A c \in Carts :
    Priced(c) =>
      /\ co[c].shippingFees = ExpectedFee(items[c])
      /\ (~HasShippedLine(items[c])
            => co[c].shippingFees = 0 /\ co[c].totalAmount = co[c].subtotal)

\* a cart with two units of a shipped product and a heavy-enough product
\* that is not shipped has been priced
C11_Witness ==
  \E c \in Carts :
    /\ Priced(c)
    /\ \E i \in 1..Len(items[c]) :
         requiresShippingFlag[items[c][i].product] /\ items[c][i].quantity = 2
    /\ \E i \in 1..Len(items[c]) :
         ~requiresShippingFlag[items[c][i].product] /\ weight[items[c][i].product] > 0
    /\ co[c].shippingFees = 42

\* a cart without any shipped line has been priced with no fee
C11_WitnessNoShipping ==
  \E c \in Carts :
    Priced(c) /\ ~HasShippedLine(items[c]) /\ co[c].totalAmount = co[c].subtotal
      /\ co[c].subtotal > 0

\* C12 as stated: every cart line has a quantity > 0, whatever quantities
\* Cart.add was called with.
C12_AsStated ==
  \A c \in Carts : \A i \in 1..Len(items[c]) : items[c][i].quantity > 0

\* C13: with calls run one after another and add quantities > 0, a checkout
\* that passed its checks never fails in Commit: the debit and every stock
\* reduction succeed.
C13_CommitNeverFails ==
  \A c \in Carts :
    /\ co[c].err \notin {DebitRejected, StockRejected}
    /\ (co[c].pc = "debit" => co[c].totalAmount <= balance)
    /\ (co[c].pc = "reduce"
          => items[c][co[c].idx].quantity <= stock[items[c][co[c].idx].product])

\* a checkout of several lines has committed after an earlier checkout
\* had reduced the stock
C13_Witness ==
  \E c \in Carts :
    /\ Done(c) /\ co[c].err = Ok
    /\ Len(items[c]) >= 2
    /\ co[c].preStock # InitStock
    /\ co[c].debited = co[c].totalAmount

\* C14: right after a successful Cart.add(product, q) the product's line
\* holds a quantity <= the product's current stock, also when the add is a
\* merge made after a checkout reduced the stock.
C14_LineWithinStockAfterAdd ==
  (lastAdd # NoAdd /\ lastAdd.err = Ok)
    => \A i \in 1..Len(items[lastAdd.cart]) :
         items[lastAdd.cart][i].product = lastAdd.product
           => items[lastAdd.cart][i].quantity <= stock[lastAdd.product]

\* a merge has succeeded on a product whose stock a checkout had reduced
C14_Witness ==
  /\ lastAdd # NoAdd /\ lastAdd.err = Ok
  /\ \E i \in 1..Len(lastAdd.pre) : lastAdd.pre[i].product = lastAdd.product
  /\ stock[lastAdd.product] < LargerStock[lastAdd.product]
  /\ ledger.sold[lastAdd.product] > 0

\* C15: in Commit the debit comes before any stock reduction and the
\* reductions follow the order of the lines: stock differs from its value
\* at call start only once the debit is applied, and then exactly for the
\* lines before the current one.
C15_DebitBeforeStockInLineOrder ==
  \A c \in Carts :
    /\ co[c].pc \in {"validate", "price", "afford", "debit"}
         => stock = co[c].preStock /\ balance = co[c].preBalance
    /\ co[c].pc = "reduce"
         => /\ balance = co[c].preBalance - co[c].totalAmount
            /\ \A p \in ProductIds :
                 stock[p] = co[c].preStock[p]
                              - QuantityOf(SubSeq(items[c], 1, co[c].idx - 1), p)

\* the customer is debited, the first line is out of stock, the next lines not yet
C15_Witness ==
  \E c \in Carts :
    /\ co[c].pc = "reduce" /\ co[c].idx = 2 /\ Len(items[c]) >= 3
    /\ balance < co[c].preBalance
    /\ stock[items[c][1].product] < co[c].preStock[items[c][1].product]
    /\ stock[items[c][2].product] = co[c].preStock[items[c][2].product]

\* C16: with checkouts interleaved step by step, a checkout that passed its
\* checks can be rejected in Commit.  A rejected stock reduction leaves the
\* customer debited for the whole cart although the line's quantity exceeds
\* the stock; a rejected debit happens although the balance covered the
\* total when the call started.
C16_CommitRejectionKeepsDebit ==
  \A c \in Carts :
    Done(c) =>
      /\ co[c].err = StockRejected
           => /\ co[c].debited = co[c].totalAmount
              /\ balance <= co[c].preBalance - co[c].totalAmount
              /\ items[c][co[c].idx].quantity > stock[items[c][co[c].idx].product]
      /\ co[c].err = DebitRejected
           => /\ co[c].debited = 0
              /\ co[c].totalAmount > balance
              /\ co[c].totalAmount <= co[c].preBalance

\* a customer has paid for a cart one of whose lines could not be taken
\* out of stock
C16_Witness ==
  \E c \in Carts :
    /\ Done(c) /\ co[c].err = StockRejected
    /\ co[c].debited > 0
    /\ items[c][co[c].idx].quantity > stock[items[c][co[c].idx].product]

\* C17: under step-level interleaving of checkouts on shared products and
\* a shared customer, no stock and no balance ever becomes negative.
C17_NeverNegativeInterleaved ==
  /\ balance >= 0
  /\ \A p \in ProductIds : stock[p] >= 0

\* a debit was rejected at the moment of mutation, after the check had passed
C17_Witness ==
  \E c \in Carts :
    /\ Done(c) /\ co[c].err = DebitRejected
    /\ balance >= 0 /\ balance < co[c].totalAmount

\* C18: no step of a checkout changes any cart, whether the checkout
\* succeeds or fails, and a checkout changes the stock only of products
\* that have a line in its cart.
C18_CheckoutKeepsCart ==
  [][\A c \in Carts :
       co'[c] # co[c]
         => /\ items' = items
            /\ \A p \in ProductIds :
                 stock'[p] # stock[p] => \E i \in 1..Len(items[c]) : items[c][i].product = p]_vars

\* the only cart ever filled has been checked out successfully twice with
\* the same lines: every product's units sold are twice its line quantity
C18_Witness ==
  \E c \in Carts :
    /\ Done(c) /\ co[c].err = Ok
    /\ \A d \in Carts \ {c} : items[d] = <<>>
    /\ co[c].preBalance = InitBalance - co[c].totalAmount
    /\ \A p \in ProductIds : ledger.sold[p] = 2 * QuantityOf(items[c], p)

\* C19: between calls, initial balance - balance is the sum of totalAmount
\* over the successful checkouts and, for every product, initial stock -
\* stock is the sum of its line quantities over the successful checkouts,
\* never more than the initial stock.
C19_BalanceAndStockAccount ==
  (\A c \in Carts : co[c].pc \in {"idle", "done"})
    => /\ InitBalance - balance = ledger.paid
       /\ \A p \in ProductIds :
            /\ InitStock[p] - stock[p] = ledger.sold[p]
            /\ ledger.sold[p] <= InitStock[p]

\* after a successful checkout, an add and a failed checkout have left the
\* account as it was
C19_Witness ==
  \E c \in Carts :
    /\ Done(c) /\ co[c].err = InsufficientBalance
    /\ ledger.paid > 0
    /\ InitBalance - balance = ledger.paid
    /\ \E p \in ProductIds : ledger.sold[p] > 0 /\ QuantityOf(items[c], p) > 0

TypeOK ==
  /\ stock \in [ProductIds -> Int]
  /\ balance \in Int
  /\ now \in 0..MaxTime
  /\ \A c \in Carts : co[c].pc \in {"idle", "validate", "price", "afford", "debit", "reduce", "done"}

====
